---- MODULE Spec2Model ----
(***************************************************************************)
(* The exhaustive / branch-and-bound TSP solver of src/tsp.c: the path     *)
(* buffer (createPath, pushCity, popCity, updatePathDist, assignPath), the *)
(* validity check (checkPath) and the recursive search (solveRec,          *)
(* solveTSP), run by main on a matrix built by createTSP.                  *)
(*                                                                         *)
(* The recursion of solveRec is an explicit stack of frames, one per       *)
(* active call, each holding its loop variable `city`; pc is the position  *)
(* of the running call.  C arrays keep their 0-based indices: an array is  *)
(* a function on 0..maxlen-1.  The printing options VERBOSE and DEBUG only *)
(* print and are left out; options is 0 or OPTIMIZE.                       *)
(***************************************************************************)
EXTENDS Integers, Sequences, FiniteSets, TLC

\* ------------------------------------------------------------------ bounds
\* Largest problem size explored (main accepts 2..26).
MaxSize == 4
\* Seeds 0..MaxSeed are explored (main accepts any unsigned seed).
MaxSeed == 23

\* --------------------------------------------------------------- constants
DISTMAX == 10
NONE == 0
OPTIMIZE == 4
\* unsigned int: ISO C asks for 16 bits at least.  TLC's integers are 32-bit
\* signed, so the 32-bit UINT_MAX of the usual build cannot be written; the
\* 16-bit value is used.  No sum of the model comes near either value
\* (a closed tour is at most 26 * DISTMAX).
UINT_MAX == 65535
UINT_MOD == UINT_MAX + 1

VARIABLES
    tsp,      \* TSP *tsp: [size, seed, first, distmax, distmat, options]
    cur,      \* path *cur of solveTSP: the working path
    sol,      \* path *sol of solveTSP: the best path found
    count,    \* uint count of main, incremented through *count
    stack,    \* the active calls of solveRec, outermost first: [city]
    pc,       \* position of the running code
    reads,    \* history: the (first, second) index pairs of the distance
              \* matrix read by the most recent updatePathDist
    hist,     \* history, one entry per frame of stack: the working path at
              \* the call (entry) and after the tentative push (pushed)
    ref       \* history: the result of the run without OPTIMIZE

vars == <<tsp, cur, sol, count, stack, pc, reads, hist, ref>>

\* ------------------------------------------------------------------- MISC
RECURSIVE factorial(_)
factorial(x) == IF x <= 1 THEN 1 ELSE x * factorial(x - 1)

\* options & flag, for a one-bit flag
HasOption(options, flag) == (options \div flag) % 2 = 1

\* ------------------------------------------------------------------- PATH
\* No path object: before createPath and after freePath.
NoPath == [array |-> <<>>, curlen |-> 0, maxlen |-> 0, dist |-> 0]

createPath(maxlen, dist) ==
    [array |-> [i \in 0..(maxlen - 1) |-> 0], curlen |-> 0,
     maxlen |-> maxlen, dist |-> dist]

\* Mutant of assignPath: the distance is not copied.
assignPath_noDist(src, dst) ==
    [array |-> [i \in DOMAIN dst.array |->
                   IF i < src.curlen THEN src.array[i] ELSE dst.array[i]],
     curlen |-> src.curlen, maxlen |-> src.maxlen, dist |-> dst.dist]

assignPath(src, dst) ==
    [array |-> [i \in DOMAIN dst.array |->
                   IF i < src.curlen THEN src.array[i] ELSE dst.array[i]],
     curlen |-> src.curlen, maxlen |-> src.maxlen, dist |-> src.dist]

\* The loop of updatePathDist over i = 0 .. upto-1, distsum being a uint.
RECURSIVE DistLoop(_, _, _)
DistLoop(t, p, upto) ==
    IF upto = 0 THEN 0
    ELSE (DistLoop(t, p, upto - 1)
          + t.distmat[p.array[upto - 1] * t.size + p.array[upto]]) % UINT_MOD

\* The index pairs that loop reads.
DistReads(p, upto) == {<<p.array[i], p.array[i + 1]>> : i \in 0..(upto - 1)}

\* The values an out-of-bounds read may leave in p->dist.
Garbage == {0, UINT_MAX}

\* updatePathDist: the set of its outcomes.  With curlen = 0 the unsigned
\* curlen - 1 wraps to UINT_MAX and the loop reads past the array, which is
\* undefined: the process faults, or goes on with any distance.
updatePathDist(t, p) ==
    IF p.curlen = 0
    THEN {[path |-> p, reads |-> {}, fault |-> TRUE]}
         \cup {[path |-> [p EXCEPT !.dist = d], reads |-> {}, fault |-> FALSE]
               : d \in Garbage}
    ELSE {[path |-> [p EXCEPT !.dist = DistLoop(t, p, p.curlen - 1)],
           reads |-> DistReads(p, p.curlen - 1), fault |-> FALSE]}

\* pushCity: a failed assertion aborts the process (fault).
pushCity(t, p, city) ==
    IF ~(p.curlen < p.maxlen /\ city < p.maxlen)
    THEN {[path |-> p, reads |-> {}, fault |-> TRUE]}
    ELSE updatePathDist(t, [p EXCEPT !.array[p.curlen] = city,
                                     !.curlen = p.curlen + 1])

\* Mutant of popCity: the distance is not recomputed.
popCity_noUpdate(t, p) ==
    IF ~(p.curlen > 0)
    THEN {[path |-> p, reads |-> {}, fault |-> TRUE]}
    ELSE {[path |-> [p EXCEPT !.curlen = p.curlen - 1], reads |-> {},
           fault |-> FALSE]}

popCity(t, p) ==
    IF ~(p.curlen > 0)
    THEN {[path |-> p, reads |-> {}, fault |-> TRUE]}
    ELSE updatePathDist(t, [p EXCEPT !.curlen = p.curlen - 1])

\* Mutant of checkPath: the comparison with the best path is inverted.
checkPath_inverted(t, c, s) ==
    IF c.curlen <= 1 THEN TRUE
    ELSE IF \E i \in 0..(c.curlen - 2) : c.array[i] = c.array[c.curlen - 1]
         THEN FALSE
    ELSE IF HasOption(t.options, OPTIMIZE) /\ c.dist <= s.dist THEN FALSE
    ELSE TRUE

\* Mutant of checkPath: the comparison is made whatever the options.
checkPath_ungated(t, c, s) ==
    IF c.curlen <= 1 THEN TRUE
    ELSE IF \E i \in 0..(c.curlen - 2) : c.array[i] = c.array[c.curlen - 1]
         THEN FALSE
    ELSE IF c.dist >= s.dist THEN FALSE
    ELSE TRUE

\* Mutant of checkPath: the last city is compared with the cities before
\* its predecessor only.
checkPath_skipsPrevious(t, c, s) ==
    IF c.curlen <= 1 THEN TRUE
    ELSE IF \E i \in 0..(c.curlen - 3) : c.array[i] = c.array[c.curlen - 1]
         THEN FALSE
    ELSE IF HasOption(t.options, OPTIMIZE) /\ c.dist >= s.dist THEN FALSE
    ELSE TRUE

checkPath(t, c, s) ==
    IF c.curlen <= 1 THEN TRUE
    ELSE IF \E i \in 0..(c.curlen - 2) : c.array[i] = c.array[c.curlen - 1]
         THEN FALSE
    ELSE IF HasOption(t.options, OPTIMIZE) /\ c.dist >= s.dist THEN FALSE
    ELSE TRUE

\* -------------------------------------------------------------------- TSP
\* srand(seed) followed by k calls of rand(): the value of the k-th call.
\* The generator of the C library is implementation-defined; a 15-bit
\* linear congruential generator stands for it (RAND_MAX = 32767), so that
\* a seed fixes the matrix, as it does in the program.
RECURSIVE rand(_, _)
rand(seed, k) ==
    IF k = 0 THEN seed % 32768
    ELSE (rand(seed, k - 1) * 20077 + 12345) % 32768

\* createDistMat: entry (i, j), j < i, takes the draw number i(i-1)/2 + j + 1
\* of the double loop; calloc leaves the diagonal 0.
createDistMat(size, seed, distmax) ==
    LET draw(i, j) == (rand(seed, (i * (i - 1)) \div 2 + j + 1) % distmax) + 1
    IN  [k \in 0..(size * size - 1) |->
            LET i == k \div size
                j == k % size
            IN  IF i = j THEN 0
                ELSE IF j < i THEN draw(i, j) ELSE draw(j, i)]

createTSP(size, first, seed, options) ==
    [size |-> size, first |-> first, distmax |-> DISTMAX, seed |-> seed,
     options |-> options, distmat |-> createDistMat(size, seed, DISTMAX)]

\* ----------------------------------------------------------------- SOLVER
\* What a path holds: its cities below curlen and its distance.
View(p) == [curlen |-> p.curlen,
            cities |-> [i \in 0..(p.curlen - 1) |-> p.array[i]],
            dist |-> p.dist]

Top == stack[Len(stack)]
Front(s) == SubSeq(s, 1, Len(s) - 1)
SetTop(s, f) == [s EXCEPT ![Len(s)] = f]

NoRef == [set |-> FALSE, sol |-> View(NoPath), count |-> 0]

\* The sizes, first cities and seeds main accepts, within the bounds.
Inputs == {[size |-> n, first |-> f, seed |-> s] :
              n \in 2..MaxSize, f \in 0..(MaxSize - 1), s \in 0..MaxSeed}

\* main up to the call of solveTSP, without -o: the instance is created
\* and count is 0.
Init ==
    /\ \E in \in Inputs :
          /\ in.first < in.size
          /\ tsp = createTSP(in.size, in.first, in.seed, NONE)
    /\ cur = NoPath
    /\ sol = NoPath
    /\ count = 0
    /\ stack = <<>>
    /\ pc = "main"
    /\ reads = {}
    /\ hist = <<>>
    /\ ref = NoRef

\* return from solveRec: to line 251 of the calling solveRec, or to
\* line 263 of solveTSP.
Return ==
    /\ stack' = Front(stack)
    /\ hist' = Front(hist)
    /\ pc' = IF Len(stack) = 1 THEN "solved" ELSE "pop"

\* solveTSP, lines 259-262: both paths are created, the first city is
\* pushed and solveRec is called.
solveTSP_begin ==
    /\ pc = "main"
    /\ sol' = createPath(tsp.size + 1, UINT_MAX)
    /\ \E o \in pushCity(tsp, createPath(tsp.size + 1, 0), tsp.first) :
          /\ cur' = o.path
          /\ reads' = o.reads
          /\ IF o.fault
             THEN pc' = "abort" /\ UNCHANGED <<stack, hist>>
             ELSE /\ pc' = "entry"
                  /\ stack' = <<[city |-> 0]>>
                  /\ hist' = <<[entry |-> View(o.path), pushed |-> View(o.path)]>>
    /\ UNCHANGED <<tsp, count, ref>>

\* solveRec, lines 236-239: return at full length, else start the loop.
solveRec_entry ==
    /\ pc = "entry"
    /\ IF cur.curlen = tsp.size
       THEN Return
       ELSE /\ stack' = SetTop(stack, [city |-> 0])
            /\ pc' = "loop"
            /\ UNCHANGED hist
    /\ UNCHANGED <<tsp, cur, sol, count, reads, ref>>

\* solveRec, lines 239-240: the loop test and the tentative push; the
\* function returns when the loop is over.
solveRec_loop ==
    /\ pc = "loop"
    /\ IF Top.city < tsp.size
       THEN \E o \in pushCity(tsp, cur, Top.city) :
               /\ cur' = o.path
               /\ reads' = o.reads
               /\ pc' = IF o.fault THEN "abort" ELSE "check"
               /\ hist' = SetTop(hist, [hist[Len(hist)] EXCEPT
                                           !.pushed = View(o.path)])
               /\ UNCHANGED stack
       ELSE Return /\ UNCHANGED <<cur, reads>>
    /\ UNCHANGED <<tsp, sol, count, ref>>

\* solveRec, lines 241-242: validation, then the test for a full path.
solveRec_check ==
    /\ pc = "check"
    /\ pc' = IF checkPath(tsp, cur, sol)
             THEN (IF cur.curlen = tsp.size THEN "close" ELSE "call")
             ELSE "pop"
    /\ UNCHANGED <<tsp, cur, sol, count, stack, reads, hist, ref>>

\* Mutant of solveRec_close: the path is closed on city 0.
solveRec_close_zero ==
    /\ pc = "close"
    /\ \E o \in pushCity(tsp, cur, 0) :
          /\ cur' = o.path
          /\ reads' = o.reads
          /\ pc' = IF o.fault THEN "abort" ELSE "closed"
    /\ UNCHANGED <<tsp, sol, count, stack, hist, ref>>

\* solveRec, line 243: come back to the first city.
solveRec_close ==
    /\ pc = "close"
    /\ \E o \in pushCity(tsp, cur, tsp.first) :
          /\ cur' = o.path
          /\ reads' = o.reads
          /\ pc' = IF o.fault THEN "abort" ELSE "closed"
    /\ UNCHANGED <<tsp, sol, count, stack, hist, ref>>

\* Mutant of solveRec_record: every closed path is kept.
solveRec_record_always ==
    /\ pc = "closed"
    /\ sol' = assignPath(cur, sol)
    /\ count' = (count + 1) % UINT_MOD
    /\ pc' = "unclose"
    /\ UNCHANGED <<tsp, cur, stack, reads, hist, ref>>

\* Mutant of solveRec_record: a closed path of equal distance is kept too.
solveRec_record_le ==
    /\ pc = "closed"
    /\ sol' = IF cur.dist <= sol.dist THEN assignPath(cur, sol) ELSE sol
    /\ count' = (count + 1) % UINT_MOD
    /\ pc' = "unclose"
    /\ UNCHANGED <<tsp, cur, stack, reads, hist, ref>>

\* solveRec, lines 244-246: keep the closed path when it is shorter, and
\* count it.
solveRec_record ==
    /\ pc = "closed"
    /\ sol' = IF cur.dist < sol.dist THEN assignPath(cur, sol) ELSE sol
    /\ count' = (count + 1) % UINT_MOD
    /\ pc' = "unclose"
    /\ UNCHANGED <<tsp, cur, stack, reads, hist, ref>>

\* Mutant of solveRec_unclose: the closing city is left on the path.
solveRec_unclose_skip ==
    /\ pc = "unclose"
    /\ pc' = "call"
    /\ UNCHANGED <<tsp, cur, sol, count, stack, reads, hist, ref>>

\* solveRec, line 247: drop the closing city.
solveRec_unclose ==
    /\ pc = "unclose"
    /\ \E o \in popCity(tsp, cur) :
          /\ cur' = o.path
          /\ reads' = o.reads
          /\ pc' = IF o.fault THEN "abort" ELSE "call"
    /\ UNCHANGED <<tsp, sol, count, stack, hist, ref>>

\* solveRec, line 249: the recursive call.
solveRec_call ==
    /\ pc = "call"
    /\ stack' = Append(stack, [city |-> 0])
    /\ hist' = Append(hist, [entry |-> View(cur), pushed |-> View(cur)])
    /\ pc' = "entry"
    /\ UNCHANGED <<tsp, cur, sol, count, reads, ref>>

\* Mutant of solveRec_pop: the loop variable is not incremented.
solveRec_pop_noInc ==
    /\ pc = "pop"
    /\ \E o \in popCity(tsp, cur) :
          /\ cur' = o.path
          /\ reads' = o.reads
          /\ pc' = IF o.fault THEN "abort" ELSE "loop"
    /\ UNCHANGED <<tsp, sol, count, stack, hist, ref>>

\* solveRec, line 251 and the city++ of line 239.
solveRec_pop ==
    /\ pc = "pop"
    /\ \E o \in popCity(tsp, cur) :
          /\ cur' = o.path
          /\ reads' = o.reads
          /\ pc' = IF o.fault THEN "abort" ELSE "loop"
    /\ stack' = SetTop(stack, [city |-> Top.city + 1])
    /\ UNCHANGED <<tsp, sol, count, hist, ref>>

\* solveTSP, lines 263-264: the working path is freed, sol is returned.
solveTSP_end ==
    /\ pc = "solved"
    /\ cur' = NoPath
    /\ pc' = "done"
    /\ UNCHANGED <<tsp, sol, count, stack, reads, hist, ref>>

\* main run again on the same size, first city and seed, with -o
\* (line 296): the result of the run without OPTIMIZE is kept in ref.
main_optimize ==
    /\ pc = "done"
    /\ ~HasOption(tsp.options, OPTIMIZE)
    /\ ref' = [set |-> TRUE, sol |-> View(sol), count |-> count]
    /\ tsp' = createTSP(tsp.size, tsp.first, tsp.seed, OPTIMIZE)
    /\ cur' = NoPath
    /\ sol' = NoPath
    /\ count' = 0
    /\ reads' = {}
    /\ pc' = "main"
    /\ UNCHANGED <<stack, hist>>

Next ==
    \/ solveTSP_begin
    \/ solveRec_entry
    \/ solveRec_loop
    \/ solveRec_check
    \/ solveRec_close
    \/ solveRec_record
    \/ solveRec_unclose
    \/ solveRec_call
    \/ solveRec_pop
    \/ solveTSP_end
    \/ main_optimize

Spec == Init /\ [][Next]_vars

\* The code is sequential and runs on: a step that can be taken is taken.
FairSpec == Spec /\ WF_vars(Next)

\* ============================================================== properties
Cities(t) == 0..(t.size - 1)
Optimizing == HasOption(tsp.options, OPTIMIZE)

\* distance(i, j) of the matrix, and the exact sum of the edges of a city
\* sequence f over the positions 0..len-1, in unbounded integers.
Distance(t, i, j) == t.distmat[i * t.size + j]
RECURSIVE EdgesFrom(_, _, _, _)
EdgesFrom(t, f, from, len) ==
    IF from + 1 >= len THEN 0
    ELSE Distance(t, f[from], f[from + 1]) + EdgesFrom(t, f, from + 1, len)
EdgeSum(t, f, len) == EdgesFrom(t, f, 0, len)

\* The closed tours from the first city: positions 0..size, every city once
\* on 0..size-1, back to the first city at position size.
Tours(t) ==
    LET others == Cities(t) \ {t.first}
        perms == {g \in [1..(t.size - 1) -> others] :
                     \A a, b \in 1..(t.size - 1) : a # b => g[a] # g[b]}
    IN  {[i \in 0..t.size |-> IF i = 0 \/ i = t.size THEN t.first ELSE g[i]]
         : g \in perms}
TourDist(t, f) == EdgeSum(t, f, t.size + 1)
MinTourDist(t) ==
    CHOOSE d \in {TourDist(t, f) : f \in Tours(t)} :
        \A f \in Tours(t) : d <= TourDist(t, f)
OptimalTours(t) == {f \in Tours(t) : TourDist(t, f) = MinTourDist(t)}

\* f comes before g in the order in which the loops of solveRec, trying the
\* cities in increasing order at every level, reach the tours.
LexLess(f, g, n) ==
    \E k \in 0..n : f[k] < g[k] /\ \A i \in 0..(k - 1) : f[i] = g[i]
\* The tour the search reaches first: the cities in increasing order.
FirstTour(t) ==
    CHOOSE f \in Tours(t) : \A g \in Tours(t) : g = f \/ LexLess(f, g, t.size)

\* C1: the distance of the path solveTSP returns is the minimum, over all
\* closed tours from the first city through every city once, of the sum of
\* their size edges.
C1_MinimumDistance ==
    pc = "done" => sol.dist = MinTourDist(tsp)
\* A run that had to improve on the first closed tour it met.
C1_Witness ==
    /\ pc = "done"
    /\ sol.dist = MinTourDist(tsp)
    /\ TourDist(tsp, FirstTour(tsp)) > sol.dist

\* C2: the run with OPTIMIZE returns the same best path (cities and
\* distance) as the run without on the same input, and its count of closed
\* tours is at most that of the run without.
C2_PruningKeepsResult ==
    (pc = "done" /\ Optimizing) =>
        /\ ref.set
        /\ View(sol) = ref.sol
        /\ count <= ref.count
\* A run where pruning cut closed tours away.
C2_Witness ==
    /\ pc = "done"
    /\ Optimizing
    /\ View(sol) = ref.sol
    /\ count < ref.count

\* C3: without OPTIMIZE the count of closed tours is (size - 1)!, whatever
\* the distances.
C3_CountIsFactorial ==
    (pc = "done" /\ ~Optimizing) => count = factorial(tsp.size - 1)
C3_Witness ==
    /\ pc = "done"
    /\ ~Optimizing
    /\ tsp.size = 4
    /\ count = 6

\* C4: the returned path has length size + 1, starts and ends at the first
\* city, and its first size entries are all the cities, each once; with or
\* without OPTIMIZE.
C4_ResultIsTour ==
    pc = "done" =>
        /\ sol.curlen = tsp.size + 1
        /\ sol.array[0] = tsp.first
        /\ sol.array[tsp.size] = tsp.first
        /\ {sol.array[i] : i \in 0..(tsp.size - 1)} = Cities(tsp)
        /\ \A i, j \in 0..(tsp.size - 1) : i # j => sol.array[i] # sol.array[j]
C4_Witness ==
    /\ pc = "done"
    /\ Optimizing
    /\ tsp.first # 0
    /\ tsp.size = 4
    /\ sol.curlen = 5
    /\ sol.array[4] = tsp.first

\* The example of the claim: size 3, d(0,1) = 1, d(0,2) = 2, d(1,2) = 3,
\* first city 0.
ScenarioA ==
    /\ tsp.size = 3
    /\ tsp.first = 0
    /\ Distance(tsp, 0, 1) = 1 /\ Distance(tsp, 1, 0) = 1
    /\ Distance(tsp, 0, 2) = 2 /\ Distance(tsp, 2, 0) = 2
    /\ Distance(tsp, 1, 2) = 3 /\ Distance(tsp, 2, 1) = 3

\* C5: among the closed tours that tie at the minimum, the one returned is
\* the first in the order of the search (the smallest city sequence), and
\* the best path is only ever replaced by a closed tour of strictly smaller
\* distance.
C5_FirstOptimumKept ==
    /\ [](pc = "done" =>
            /\ View(sol).cities \in OptimalTours(tsp)
            /\ \A g \in OptimalTours(tsp) :
                  g = View(sol).cities \/ LexLess(View(sol).cities, g, tsp.size)
            /\ ScenarioA => (View(sol).cities = (0 :> 0 @@ 1 :> 1 @@ 2 :> 2 @@ 3 :> 0)
                             /\ sol.dist = 6))
    /\ [][(pc = "closed" /\ sol' # sol) => sol'.dist < sol.dist]_vars
\* The end of a run on the example, where 0,1,2,0 and 0,2,1,0 tie at 6.
C5_Witness ==
    /\ pc = "done"
    /\ ScenarioA
    /\ Cardinality(OptimalTours(tsp)) = 2
    /\ View(sol).cities = FirstTour(tsp)
    /\ sol.dist = 6
\* The end of a run with several optimal tours, none of them the first
\* tour of the search.
C5_LaterOptimumReached ==
    /\ pc = "done"
    /\ Cardinality(OptimalTours(tsp)) >= 2
    /\ View(sol).cities \in OptimalTours(tsp)
    /\ FirstTour(tsp) \notin OptimalTours(tsp)

\* C6: the distance of the working path is always the sum of the distances
\* of its consecutive pairs, and the distance kept with the best path is
\* the sum of the size edges of that tour, recomputed from the matrix.
C6_DistanceIsEdgeSum ==
    /\ pc \notin {"main", "done"} => cur.dist = EdgeSum(tsp, cur.array, cur.curlen)
    /\ (pc # "main" /\ sol.curlen > 0) =>
          /\ sol.curlen = tsp.size + 1
          /\ sol.dist = EdgeSum(tsp, sol.array, tsp.size + 1)
C6_Witness ==
    /\ pc = "unclose"
    /\ cur.curlen = tsp.size + 1
    /\ cur.dist = EdgeSum(tsp, cur.array, cur.curlen)
    /\ sol.dist = cur.dist
    /\ cur.dist > 0

\* One of the distances read by the last recomputation is a self-distance.
SelfRead == \E r \in reads : r[1] = r[2]

\* C7 as stated: no distance lookup has both indices equal.
C7_SelfDistanceNeverRead == ~SelfRead
\* C7 amended: a self-distance is read only by the recomputation that
\* follows the tentative push of the city already last in the working path;
\* checkPath rejects that path, so it is popped without being extended,
\* closed, counted or kept.
C7_SelfDistanceOnlyOnRejectedPush ==
    SelfRead =>
        /\ pc \in {"check", "pop"}
        /\ cur.curlen >= 2
        /\ cur.array[cur.curlen - 1] = cur.array[cur.curlen - 2]
        /\ ~checkPath(tsp, cur, sol)
        /\ \A r \in reads : r[1] = r[2] =>
              r = <<cur.array[cur.curlen - 2], cur.array[cur.curlen - 1]>>
C7_Witness ==
    /\ pc = "check"
    /\ SelfRead
    /\ ~checkPath(tsp, cur, sol)

\* C8: backtracking restores the working path.  At the head of the loop,
\* before the first iteration and after each one, it is what it was when
\* the running solveRec was called; after the closing city is dropped it is
\* what the tentative push left; when the search is over it holds the first
\* city alone, with distance 0.
C8_BacktrackingRestores ==
    /\ pc = "loop" => View(cur) = hist[Len(hist)].entry
    /\ pc = "call" => View(cur) = hist[Len(hist)].pushed
    /\ pc = "pop" =>
          /\ View(cur) = hist[Len(hist)].pushed
          /\ View(cur).curlen = hist[Len(hist)].entry.curlen + 1
    /\ pc = "solved" =>
          /\ cur.curlen = 1
          /\ cur.array[0] = tsp.first
          /\ cur.dist = 0
\* The head of the outermost loop after an iteration that closed tours.
C8_Witness ==
    /\ pc = "loop"
    /\ Len(stack) = 1
    /\ Top.city > 0
    /\ count > 0
    /\ View(cur) = hist[1].entry

\* C9: the search ends and returns: from the call of solveTSP the process
\* reaches the return, every pushed city is popped later, there are never
\* more than size active calls of solveRec, and a state that is not the end
\* of the run has a step to take.
C9_SearchTerminates ==
    /\ (pc = "main") ~> (pc = "done")
    /\ (pc = "check") ~> (pc = "loop")
    /\ (pc = "closed") ~> (pc = "call")
    /\ [](Len(stack) <= tsp.size)
    /\ []((pc # "done" \/ ~Optimizing) => ENABLED Next)
C9_Witness ==
    /\ pc = "entry"
    /\ Len(stack) = tsp.size
    /\ Optimizing

\* C10: the length of the working path stays in 1..size+1: no push on a full
\* path, no pop that empties it, so no assertion of pushCity or popCity
\* fails and curlen - 1 never wraps in updatePathDist.
C10_LengthInBounds ==
    /\ pc # "abort"
    /\ pc \notin {"main", "done"} =>
          /\ cur.maxlen = tsp.size + 1
          /\ cur.curlen \in 1..(tsp.size + 1)
    /\ (pc = "close" \/ (pc = "loop" /\ Top.city < tsp.size)) =>
          cur.curlen < cur.maxlen
    /\ pc \in {"pop", "unclose"} => cur.curlen >= 2
\* The working path at capacity.
C10_Witness ==
    /\ pc = "closed"
    /\ cur.curlen = tsp.size + 1
    /\ cur.curlen = cur.maxlen

====
